---- MODULE Spec2Model ----
(***************************************************************************)
(* A model of tfidf-search/scripts/tfidf_search.py: one run of main(),     *)
(* from the parsed command line to the exit of the process.                *)
(*                                                                         *)
(* A text is a sequence of symbols: words, and Space for a whitespace      *)
(* character.  A term of the vocabulary is a tuple of one or two words (a  *)
(* unigram or a bigram).  Weights are integers: idf is kept in fixed point *)
(* with one decimal (IdfScale), and a row of the tf-idf matrix is kept     *)
(* un-normalised, its L2 normalisation being applied inside the cosine.    *)
(* A similarity is kept as the square of the cosine, an exact fraction in  *)
(* lowest terms <<num, den>>; cosines here are never negative, so order,   *)
(* equality, 0 and 1 are those of the cosine itself.                       *)
(***************************************************************************)
EXTENDS Integers, Sequences, FiniteSets, TLC

VARIABLES
    args_top_k,     \* args.top_k, as parsed
    args_query,     \* args.query
    csv_kind,       \* what pd.read_csv meets at args.csv_file
    csv_rows,       \* the cells of the text column in the file, in order
    df,             \* the loaded text column (main's df[args.text_column])
    vocabulary_,    \* vectorizer.vocabulary_ (the set of terms; ids follow sorted order)
    idf_,           \* vectorizer.idf_, by term
    X,              \* the document-term matrix, one row per document, in order
    top_k,          \* main's clamped top_k
    similarities,   \* search's similarities, one per document
    indices,        \* search's top_indices (0-based document positions)
    scores,         \* search's similarities[top_indices]
    printed,        \* the (position, score) rows print_results wrote
    stdout_msg,     \* "none", "no_results" or "results"
    err,            \* the error message written to stderr, "none" if none
    exit_code,      \* -1 while running, else the process's exit status
    pc              \* main's position

vars == <<args_top_k, args_query, csv_kind, csv_rows, df, vocabulary_, idf_, X,
          top_k, similarities, indices, scores, printed, stdout_msg, err,
          exit_code, pc>>

-----------------------------------------------------------------------------
(* Bounds and input alphabets *)

MaxDocs == 2
MaxLen == 1
MaxTopK == 2

Space == " "
\* a missing cell of the text column (pandas reads it as NaN)
NULL == <<"NaN">>

DocWords == {"the", "cat", "Cat"}
QueryChars == {Space, "cat", "dog"}

TextsOver(alphabet) == UNION {[1..k -> alphabet] : k \in 0..MaxLen}
Cells == TextsOver(DocWords) \cup {NULL}
Corpora == UNION {[1..n -> Cells] : n \in 0..MaxDocs}
Queries == TextsOver(QueryChars)
TopKs == (-1)..MaxTopK
CsvKinds == {"ok", "not_found", "empty_file", "unreadable", "no_column"}

-----------------------------------------------------------------------------
(* Small arithmetic helpers *)

Min(a, b) == IF a < b THEN a ELSE b
Max(a, b) == IF a > b THEN a ELSE b

RECURSIVE GCD(_, _)
GCD(a, b) == IF b = 0 THEN a ELSE GCD(b, a % b)

RECURSIVE SumOver(_, _)
SumOver(S, f) ==
    IF S = {} THEN 0
    ELSE LET t == CHOOSE t \in S : TRUE IN f[t] + SumOver(S \ {t}, f)

Fraction(n, d) == LET g == GCD(n, d) IN <<n \div g, d \div g>>

\* a/b < c/d for b, d > 0 and a, c >= 0, by continued fractions (no products)
RECURSIVE FracLess(_, _, _, _)
FracLess(a, b, c, d) ==
    LET qa == a \div b
        qc == c \div d
        ra == a % b
        rc == c % d
    IN  IF qa # qc THEN qa < qc
        ELSE IF rc = 0 THEN FALSE
        ELSE IF ra = 0 THEN TRUE
        ELSE FracLess(d, rc, b, ra)

ScoreLess(s, t) == FracLess(s[1], s[2], t[1], t[2])
Zero == <<0, 1>>
One == <<1, 1>>

-----------------------------------------------------------------------------
(* The analyzer of TfidfVectorizer(ngram_range=(1, 2), stop_words='english') *)

max_features == 10000
min_df == 1

Range(s) == {s[i] : i \in DOMAIN s}

\* str.lower() on one symbol
lower(c) == IF c = "Cat" THEN "cat" ELSE c

lowercase(text) == [i \in DOMAIN text |-> lower(text[i])]

\* the words of the text: whitespace separates tokens and is not one (every
\* word of the alphabets has two or more characters, as token_pattern requires)
tokenize(text) == SelectSeq(text, LAMBDA c : c # Space)

\* the members of the built-in English stop-word list among the symbols
ENGLISH_STOP_WORDS == {"the"}

\* variant: the stop-word list is not applied
keep_stop_words(tokens) == tokens

remove_stop_words(tokens) == SelectSeq(tokens, LAMBDA w : w \notin ENGLISH_STOP_WORDS)

\* unigrams, then the pairs of adjacent surviving words
word_ngrams(tokens) ==
    LET unigrams == [i \in 1..Len(tokens) |-> <<tokens[i]>>]
        bigrams == IF Len(tokens) < 2 THEN <<>>
                   ELSE [i \in 1..(Len(tokens) - 1) |-> <<tokens[i], tokens[i + 1]>>]
    IN  unigrams \o bigrams

analyze(text) == word_ngrams(remove_stop_words(tokenize(lowercase(text))))

Count(term, terms) == Cardinality({i \in DOMAIN terms : terms[i] = term})

-----------------------------------------------------------------------------
(* TfidfVectorizer.fit_transform and .transform *)

DocFreq(term, documents) ==
    Cardinality({i \in DOMAIN documents : term \in Range(analyze(documents[i]))})

TotalCount(term, documents) ==
    SumOver(DOMAIN documents, [i \in DOMAIN documents |-> Count(term, analyze(documents[i]))])

\* the terms kept: document frequency at least min_df, and when more than
\* max_features remain, max_features of them with the highest corpus counts
fit_vocabulary(documents) ==
    LET seen == UNION {Range(analyze(documents[i])) : i \in DOMAIN documents}
        kept == {t \in seen : DocFreq(t, documents) >= min_df}
    IN  IF Cardinality(kept) <= max_features THEN kept
        ELSE CHOOSE S \in SUBSET kept :
                /\ Cardinality(S) = max_features
                /\ \A t \in S, u \in kept \ S :
                       TotalCount(t, documents) >= TotalCount(u, documents)

\* ln(a / b) in tenths, rounded, for 2 <= b <= a <= 5
LnTenths(a, b) ==
    CASE a = b -> 0
      [] a = 3 /\ b = 2 -> 4
      [] a = 4 /\ b = 2 -> 7
      [] a = 4 /\ b = 3 -> 3
      [] a = 5 /\ b = 2 -> 9
      [] a = 5 /\ b = 3 -> 5
      [] a = 5 /\ b = 4 -> 2

\* smooth idf: ln((1 + n) / (1 + df)) + 1, in tenths
fit_idf(vocabulary, documents) ==
    [t \in vocabulary |->
        LnTenths(1 + Len(documents), 1 + DocFreq(t, documents)) + 10]

\* one row: term count times idf over the fixed vocabulary; terms outside it are ignored
tfidf_row(text, vocabulary, idf) ==
    [t \in vocabulary |-> Count(t, analyze(text)) * idf[t]]

\* variant: an empty vocabulary is not detected
accept_empty_vocabulary(vocabulary) == FALSE

\* fit_transform raises ValueError("empty vocabulary; ...") when no term survives
empty_vocabulary(vocabulary) == vocabulary = {}

\* variant: the query is fitted (fit_transform) and its terms join the vocabulary
vocabulary_after_fit(vocabulary, query) == vocabulary \cup Range(analyze(query))

\* vectorizer.vocabulary_ after transform([query]): the fitted vocabulary is used as is
vocabulary_after_transform(vocabulary, query) == vocabulary

-----------------------------------------------------------------------------
(* cosine_similarity, argsort and the slices of search *)

Norm2(v) == SumOver(DOMAIN v, [t \in DOMAIN v |-> v[t] * v[t]])
Dot(u, v) == SumOver(DOMAIN u, [t \in DOMAIN u |-> u[t] * v[t]])

\* variant: the rows of X are taken as already of unit length
cosine_rows_not_normalised(x, q) ==
    LET nq == Norm2(q)
        d == Dot(x, q)
    IN  IF Norm2(x) = 0 \/ nq = 0 THEN Zero ELSE Fraction(d * d, nq)

\* variant: a zero query vector is not given similarity 0
cosine_zero_query_matches(x, q) ==
    LET nx == Norm2(x)
        nq == Norm2(q)
        d == Dot(x, q)
    IN  IF nx = 0 THEN Zero ELSE IF nq = 0 THEN One ELSE Fraction(d * d, nx * nq)

\* both sides are normalised; a zero vector stays zero and gives 0
cosine_similarity(x, q) ==
    LET nx == Norm2(x)
        nq == Norm2(q)
        d == Dot(x, q)
    IN  IF nx = 0 \/ nq = 0 THEN Zero ELSE Fraction(d * d, nx * nq)

\* numpy argsort (default kind, not stable): every ascending order of the
\* positions is a possible result; positions are 0-based
argsort(sims) ==
    LET n == Len(sims) IN
    {p \in [1..n -> 0..(n - 1)] :
        /\ \A i, j \in 1..n : i # j => p[i] # p[j]
        /\ \A i, j \in 1..n : i < j => ~ScoreLess(sims[p[j] + 1], sims[p[i] + 1])}

\* s[i:] with Python's slice semantics (a negative i counts from the end)
slice_from(s, i) ==
    LET n == Len(s)
        start == IF i < 0 THEN Max(n + i, 0) ELSE Min(i, n)
    IN  SubSeq(s, start + 1, n)

\* variant: s[-k + 1:]
tail_slice_off_by_one(s, k) == slice_from(s, 1 - k)

\* s[-k:]; -0 is 0, so k = 0 gives all of s
tail_slice(s, k) == slice_from(s, 0 - k)

\* variant: the order is left ascending
not_reversed(s) == s

\* s[::-1]
reversed(s) == [i \in 1..Len(s) |-> s[Len(s) + 1 - i]]

-----------------------------------------------------------------------------
(* main *)

\* variant: only negative values are rejected
invalid_top_k_negative(k) == k < 0

\* line 132
invalid_top_k(k) == k < 1

RECURSIVE lstrip(_)
lstrip(s) == IF s # <<>> /\ Head(s) = Space THEN lstrip(Tail(s)) ELSE s

\* str.strip()
strip(s) ==
    LET r == lstrip(s)
        back == lstrip([i \in 1..Len(r) |-> r[Len(r) + 1 - i]])
    IN  [i \in 1..Len(back) |-> back[Len(back) + 1 - i]]

\* variant: the query is not stripped
blank_query_unstripped(q) == q = <<>>

\* line 136
blank_query(q) == strip(q) = <<>>

\* fillna('') on the text column
fillna(rows) == [i \in DOMAIN rows |-> IF rows[i] = NULL THEN <<>> ELSE rows[i]]

Init ==
    /\ args_top_k \in TopKs
    /\ args_query \in Queries
    /\ csv_kind \in CsvKinds
    /\ csv_rows \in (IF csv_kind = "ok" THEN Corpora ELSE {<<>>})
    /\ df = <<>>
    /\ vocabulary_ = {}
    /\ idf_ = <<>>
    /\ X = <<>>
    /\ top_k = 0
    /\ similarities = <<>>
    /\ indices = <<>>
    /\ scores = <<>>
    /\ printed = <<>>
    /\ stdout_msg = "none"
    /\ err = "none"
    /\ exit_code = -1
    /\ pc = "validate_top_k"

\* sys.exit(1) after a message on stderr
Fail(message) ==
    /\ err' = message
    /\ exit_code' = 1
    /\ pc' = "done"

\* lines 131-134
validate_top_k ==
    /\ pc = "validate_top_k"
    /\ IF invalid_top_k(args_top_k)
         THEN Fail("top_k must be at least 1")
         ELSE pc' = "validate_query" /\ UNCHANGED <<err, exit_code>>
    /\ UNCHANGED <<args_top_k, args_query, csv_kind, csv_rows, df, vocabulary_,
                   idf_, X, top_k, similarities, indices, scores, printed,
                   stdout_msg>>

\* lines 136-138
validate_query ==
    /\ pc = "validate_query"
    /\ IF blank_query(args_query)
         THEN Fail("Query cannot be empty")
         ELSE pc' = "load" /\ UNCHANGED <<err, exit_code>>
    /\ UNCHANGED <<args_top_k, args_query, csv_kind, csv_rows, df, vocabulary_,
                   idf_, X, top_k, similarities, indices, scores, printed,
                   stdout_msg>>

\* lines 29-54, called at line 142
load_dataset ==
    /\ pc = "load"
    /\ CASE csv_kind = "not_found" -> Fail("File not found") /\ UNCHANGED df
         [] csv_kind = "empty_file" -> Fail("File is empty") /\ UNCHANGED df
         [] csv_kind = "unreadable" -> Fail("Error reading CSV") /\ UNCHANGED df
         [] csv_kind = "no_column" -> Fail("Column not found") /\ UNCHANGED df
         [] csv_kind = "ok" ->
                /\ df' = fillna(csv_rows)
                /\ pc' = "index"
                /\ UNCHANGED <<err, exit_code>>
    /\ UNCHANGED <<args_top_k, args_query, csv_kind, csv_rows, vocabulary_,
                   idf_, X, top_k, similarities, indices, scores, printed,
                   stdout_msg>>

\* lines 57-70, called at line 147
create_tfidf_index ==
    /\ pc = "index"
    /\ LET vocabulary == fit_vocabulary(df)
           idf == fit_idf(vocabulary, df)
       IN  IF empty_vocabulary(vocabulary)
             THEN /\ Fail("Error creating TF-IDF index")
                  /\ UNCHANGED <<vocabulary_, idf_, X>>
             ELSE /\ vocabulary_' = vocabulary
                  /\ idf_' = idf
                  /\ X' = [i \in DOMAIN df |-> tfidf_row(df[i], vocabulary, idf)]
                  /\ pc' = "search"
                  /\ UNCHANGED <<err, exit_code>>
    /\ UNCHANGED <<args_top_k, args_query, csv_kind, csv_rows, df, top_k,
                   similarities, indices, scores, printed, stdout_msg>>

\* lines 153-154 and 73-88
search ==
    /\ pc = "search"
    /\ LET k == Min(args_top_k, Len(df))
           query_vec == tfidf_row(args_query, vocabulary_, idf_)
           sims == [i \in DOMAIN X |-> cosine_similarity(X[i], query_vec)]
       IN  \E order \in argsort(sims) :
             LET top_indices == reversed(tail_slice(order, k)) IN
             /\ top_k' = k
             /\ similarities' = sims
             /\ indices' = top_indices
             /\ scores' = [r \in DOMAIN top_indices |-> sims[top_indices[r] + 1]]
    /\ vocabulary_' = vocabulary_after_transform(vocabulary_, args_query)
    /\ pc' = "check"
    /\ UNCHANGED <<args_top_k, args_query, csv_kind, csv_rows, df, idf_, X,
                   printed, stdout_msg, err, exit_code>>

\* lines 156-160; scores[0] of an empty result is an uncaught IndexError
check_results ==
    /\ pc = "check"
    /\ IF scores = <<>>
         THEN Fail("IndexError") /\ UNCHANGED stdout_msg
         ELSE IF scores[1] = Zero
           THEN /\ stdout_msg' = "no_results"
                /\ exit_code' = 0
                /\ pc' = "done"
                /\ UNCHANGED err
           ELSE /\ pc' = "print"
                /\ UNCHANGED <<stdout_msg, err, exit_code>>
    /\ UNCHANGED <<args_top_k, args_query, csv_kind, csv_rows, df, vocabulary_,
                   idf_, X, top_k, similarities, indices, scores, printed>>

\* lines 91-109, called at line 163; the script then ends with status 0
print_results ==
    /\ pc = "print"
    /\ printed' = [r \in 1..Min(Len(indices), Len(scores)) |-> <<indices[r], scores[r]>>]
    /\ stdout_msg' = "results"
    /\ exit_code' = 0
    /\ pc' = "done"
    /\ UNCHANGED <<args_top_k, args_query, csv_kind, csv_rows, df, vocabulary_,
                   idf_, X, top_k, similarities, indices, scores, err>>

Next ==
    \/ validate_top_k
    \/ validate_query
    \/ load_dataset
    \/ create_tfidf_index
    \/ search
    \/ check_results
    \/ print_results

Spec == Init /\ [][Next]_vars

TypeOK ==
    /\ pc \in {"validate_top_k", "validate_query", "load", "index", "search",
               "check", "print", "done"}
    /\ exit_code \in {-1, 0, 1}

-----------------------------------------------------------------------------
(* Properties.  search has returned exactly when pc = "check": every run  *)
(* that calls search passes through that position with search's results.  *)

AllSpace(q) == \A i \in DOMAIN q : q[i] = Space

PreconditionErrors ==
    {"top_k must be at least 1", "Query cannot be empty", "File is empty",
     "Error creating TF-IDF index"}

SimilarityComputed == pc \in {"check", "print"} \/ stdout_msg # "none"

\* the rows yield no term: each one is missing, or holds stop words and whitespace only
NoUsableTerm(rows) ==
    \A i \in DOMAIN rows :
        rows[i] = NULL \/ \A j \in DOMAIN rows[i] : rows[i][j] \in {"the", Space}

\* C1 as stated: the returned scores are in descending order, and returned
\* documents of equal score are in ascending order of document position.
C1_SortedTiesByPosition ==
    pc = "check" =>
        \A r, t \in DOMAIN scores :
            r < t => /\ ~ScoreLess(scores[r], scores[t])
                     /\ scores[r] = scores[t] => indices[r] < indices[t]

\* C1 amended: the returned scores are in descending order, each is the
\* similarity of the document returned with it, and no document is returned
\* twice (nothing is promised on the order of equal scores).
C1_SortedDescending ==
    pc = "check" =>
        /\ \A r, t \in DOMAIN scores : r < t => ~ScoreLess(scores[r], scores[t])
        /\ \A r \in DOMAIN indices : scores[r] = similarities[indices[r] + 1]
        /\ \A r, t \in DOMAIN indices : r # t => indices[r] # indices[t]

C1_Witness ==
    /\ pc = "check"
    /\ Len(scores) >= 2
    /\ ScoreLess(scores[2], scores[1])

\* C2: with at least one document and top_k >= 1, search returns exactly
\* min(top_k, number of documents) entries, and a top_k above the number of
\* documents is not an error.
C2_ResultLength ==
    (pc = "check" /\ Len(df) >= 1 /\ args_top_k >= 1) =>
        /\ Len(indices) = Min(args_top_k, Len(df))
        /\ Len(scores) = Min(args_top_k, Len(df))
        /\ err = "none"

C2_Witness ==
    /\ pc = "check"
    /\ args_top_k > Len(df)
    /\ Len(indices) = Len(df)

\* C3: a run with top_k < 1 ends with the top_k error and status 1, and never
\* loads, indexes, searches or prints anything.
C3_InvalidTopKFails ==
    args_top_k < 1 =>
        /\ pc \in {"validate_top_k", "done"}
        /\ indices = <<>> /\ scores = <<>> /\ printed = <<>>
        /\ stdout_msg = "none"
        /\ pc = "done" => (err = "top_k must be at least 1" /\ exit_code = 1)

C3_Witness ==
    /\ pc = "done"
    /\ args_top_k = 0
    /\ err = "top_k must be at least 1"

\* C4 as stated: a run whose query is blank ends with the empty-query error
\* and no result, and a non-blank query whose similarities are all 0 ends
\* without an error.
C4_BlankQueryFails ==
    /\ (pc = "done" /\ AllSpace(args_query)) =>
           (err = "Query cannot be empty" /\ exit_code = 1 /\ printed = <<>>)
    /\ (~AllSpace(args_query) /\ SimilarityComputed
           /\ \A i \in DOMAIN similarities : similarities[i] = Zero) =>
           (err = "none" /\ (pc = "done" => exit_code = 0))

\* C4 amended: a run with top_k >= 1 whose query is blank ends with the
\* empty-query error and no result (with top_k < 1 it ends with the top_k
\* error, which is checked first); a blank query is never loaded for, indexed
\* for or searched; and a non-blank query whose similarities are all 0 ends
\* without an error.
C4_BlankQueryFailsAfterTopK ==
    /\ AllSpace(args_query) =>
           /\ pc \in {"validate_top_k", "validate_query", "done"}
           /\ indices = <<>> /\ scores = <<>> /\ printed = <<>>
    /\ (pc = "done" /\ AllSpace(args_query)) =>
           /\ exit_code = 1
           /\ err = IF args_top_k >= 1 THEN "Query cannot be empty"
                    ELSE "top_k must be at least 1"
    /\ (~AllSpace(args_query) /\ SimilarityComputed
           /\ \A i \in DOMAIN similarities : similarities[i] = Zero) =>
           (err = "none" /\ (pc = "done" => exit_code = 0))

C4_Witness ==
    /\ pc = "done"
    /\ args_query = <<Space>>
    /\ args_top_k >= 1
    /\ err = "Query cannot be empty"

\* C5: a run over zero documents, or over documents that yield no term, never
\* gets an index and never searches; it ends with status 1, and when the
\* arguments are valid the error is that of index construction (an empty
\* file fails when it is read).
C5_EmptyCorpusFails ==
    (csv_kind \in {"ok", "empty_file"} /\ NoUsableTerm(csv_rows)) =>
        /\ vocabulary_ = {} /\ X = <<>>
        /\ pc \notin {"search", "check", "print"}
        /\ similarities = <<>> /\ stdout_msg = "none"
        /\ pc = "done" =>
              /\ exit_code = 1
              /\ (args_top_k >= 1 /\ ~AllSpace(args_query)) =>
                    err = IF csv_kind = "ok" THEN "Error creating TF-IDF index"
                          ELSE "File is empty"

C5_Witness ==
    /\ pc = "done"
    /\ csv_kind = "ok"
    /\ csv_rows = <<>>
    /\ err = "Error creating TF-IDF index"

\* C6: when the index is built and the query is non-blank with none of its
\* terms in the vocabulary, search returns without an error, every document's
\* similarity is 0, and the run ends with the no-results message and status 0.
C6_OutOfVocabularyQuery ==
    (SimilarityComputed /\ ~AllSpace(args_query)
        /\ Range(analyze(args_query)) \cap vocabulary_ = {}) =>
        /\ err = "none"
        /\ Len(similarities) = Len(df)
        /\ \A i \in DOMAIN similarities : similarities[i] = Zero
        /\ pc # "print"
        /\ pc = "done" => (stdout_msg = "no_results" /\ exit_code = 0)

C6_Witness ==
    /\ pc = "done"
    /\ stdout_msg = "no_results"
    /\ args_query = <<"dog">>
    /\ Len(df) >= 2

\* C7: a run that ends with a precondition error has computed no similarity,
\* a run that has computed similarities has none of the four violations, and
\* an error ends the run at once (status 1, no further step).
C7_FailFast ==
    /\ err \in PreconditionErrors =>
           (similarities = <<>> /\ indices = <<>> /\ scores = <<>> /\ top_k = 0)
    /\ SimilarityComputed =>
           /\ args_top_k >= 1
           /\ ~AllSpace(args_query)
           /\ Len(csv_rows) >= 1
           /\ ~NoUsableTerm(csv_rows)
           /\ err = "none"
    /\ err # "none" => (pc = "done" /\ exit_code = 1)

C7_Witness ==
    /\ pc = "done"
    /\ err = "Error creating TF-IDF index"
    /\ Len(csv_rows) >= 1
    /\ similarities = <<>>

SelfQuery(i) ==
    /\ i \in DOMAIN df
    /\ args_query = df[i]
    /\ Range(analyze(df[i])) # {}
    /\ \A j, k \in DOMAIN df : j # k => df[j] # df[k]

\* C9 as stated: searching with the text of document i gives it score 1 and
\* returns it at rank 1.
C9_SelfQueryRanksFirst ==
    pc = "check" =>
        \A i \in DOMAIN df :
            SelfQuery(i) => (similarities[i] = One /\ indices[1] = i - 1)

\* C9 amended: searching with the text of document i gives it score 1, no
\* document scores more, the document at rank 1 has score 1, and document i
\* is the one at rank 1 when no other document has score 1.
C9_SelfQueryScoresOne ==
    pc = "check" =>
        \A i \in DOMAIN df :
            SelfQuery(i) =>
                /\ similarities[i] = One
                /\ \A j \in DOMAIN df : ~ScoreLess(One, similarities[j])
                /\ scores[1] = One
                /\ (\A j \in DOMAIN df : j # i => similarities[j] # One)
                       => indices[1] = i - 1

C9_Witness ==
    /\ pc = "check"
    /\ SelfQuery(2)
    /\ indices[1] = 1
    /\ similarities[1] # One

\* C10: when main tests scores[0] there is at least one document, the
\* clamped top_k is at least 1 and the result is not empty; results are
\* printed only when the top score is not 0, and otherwise the run ends with
\* the no-results message and status 0.
C10_ResultNonEmptyAtCheck ==
    /\ pc = "check" =>
           (Len(df) >= 1 /\ top_k >= 1 /\ Len(scores) >= 1 /\ Len(indices) = Len(scores))
    /\ err # "IndexError"
    /\ (pc = "print" \/ stdout_msg = "results") => scores[1] # Zero
    /\ (pc = "done" /\ stdout_msg = "results") =>
           (Len(printed) = Len(scores) /\ exit_code = 0)
    /\ (pc = "done" /\ scores # <<>> /\ scores[1] = Zero) =>
           (stdout_msg = "no_results" /\ exit_code = 0 /\ printed = <<>>)

C10_Witness ==
    /\ pc = "done"
    /\ stdout_msg = "no_results"
    /\ Len(scores) >= 1
    /\ top_k < args_top_k

====
